---- MODULE Spec2Model ----
(***************************************************************************)
(* A model of pyraw/rawimage.py: the hand-written raw PGM reader           *)
(* (read_pgm), the dcraw driver (read_raw) and the FITS conversion         *)
(* (raw_to_fits) with its metadata scrape and Bayer channel split.         *)
(*                                                                         *)
(* Bytes are numbers 0..255 and a buffer is a sequence of bytes.  A pixel  *)
(* grid is a sequence of rows, each a sequence of samples; TLA+ sequences  *)
(* are 1-based, the code's offsets are 0-based, and the operators below    *)
(* keep the code's 0-based offsets in their parameters.                    *)
(***************************************************************************)
EXTENDS Integers, Sequences, FiniteSets, TLC

VARIABLES
    \* ---- read_pgm on its own (SpecPgm) ----
    pgmPc,        \* "init" | "done"
    pgmBuf,       \* the file's bytes
    pgmIn,        \* how the buffer was put together: [seps, w, h, maxval, raster]
    pgmOut,       \* what read_pgm returned or raised
    \* ---- the channel split on its own (SpecSplit) ----
    spPc,         \* "init" | "done"
    spGrid,       \* raw_data
    spBayer,      \* bayer_str
    spOut,        \* the four channels, or the error raised
    \* ---- conversions (Spec, SpecConc) ----
    fs,           \* the file system: path -> content
    pc,           \* per conversion: where raw_to_fits stands
    args,         \* per conversion: raw_filename, fits_filename, split_channels, interpolate
    raw_data,     \* per conversion: what read_raw returned
    rawheader,    \* per conversion: the text dcraw -i -v printed
    meta,         \* per conversion: the scraped metadata
    hdulist,      \* per conversion: the HDUList built
    result,       \* per conversion: returned / written / the error raised
    nDecode,      \* per conversion: decode invocations of dcraw so far
    nMeta,        \* per conversion: metadata invocations of dcraw so far
    decodeOk,     \* per conversion: whether its decode invocation wrote the sibling file
    fs0,          \* per conversion: the file system when the conversion started
    overlapped    \* whether a decode ran between another conversion's decode and read

vars == <<pgmPc, pgmBuf, pgmIn, pgmOut, spPc, spGrid, spBayer, spOut,
          fs, pc, args, raw_data, rawheader, meta, hdulist, result, nDecode, nMeta,
          decodeOk, fs0, overlapped>>

pgmVars == <<pgmPc, pgmBuf, pgmIn, pgmOut>>
spVars == <<spPc, spGrid, spBayer, spOut>>
convVars == <<fs, pc, args, raw_data, rawheader, meta, hdulist, result, nDecode, nMeta,
              decodeOk, fs0, overlapped>>

(***************************************************************************)
(* Bounds of the model.                                                    *)
(***************************************************************************)
\* read_pgm is run on images of 1..MaxDim by 1..MaxDim samples
MaxDim == 2
\* ... followed by 0..MaxExtra bytes after the last sample
MaxExtra == 1
\* the first RasterFree bytes of the raster are drawn freely, the rest is a ramp
RasterFree == 3
\* the channel split is run on grids of 1..MaxSide by 1..MaxSide cells
MaxSide == 4

(***************************************************************************)
(* Generic helpers.                                                        *)
(***************************************************************************)
Min(a, b) == IF a <= b THEN a ELSE b

\* The elements of a finite set of integers, largest first.
DescSeq(K) ==
    [n \in 1..Cardinality(K) |->
        CHOOSE k \in K : Cardinality({x \in K : x > k}) = n - 1]

\* F applied to the value of v, v computed once (the bound variable of a set
\* constructor holds a value, where the parameter of an operator holds an
\* expression that is computed again at every use)
With(v, F(_)) == CHOOSE r \in {F(x) : x \in {v}} : TRUE

\* the concatenation of a sequence of sequences
Flatten(seqs) ==
    LET Cat(ss) ==
            LET f[k \in 0..Len(ss)] == IF k = 0 THEN <<>> ELSE f[k - 1] \o ss[k]
            IN  f[Len(ss)]
    IN  With(seqs, Cat)

\* The error a Python exception leaves: no value, the exception's class.
Raise(cls) == [ok |-> FALSE, err |-> cls]

(***************************************************************************)
(* read_pgm: the header regular expression, matched as re.search matches   *)
(* it (leftmost, greedy, backtracking), on a buffer of bytes.              *)
(*   ^P5\s(?:\s*#.*[\r\n])*(\d+)\s(?:\s*#.*[\r\n])*(\d+)\s                  *)
(*   (?:\s*#.*[\r\n])*(\d+)\s(?:\s*#.*[\r\n]\s)*                            *)
(* Positions are 1-based indexes of the next byte to read.                 *)
(***************************************************************************)
ByteP == 80
Byte5 == 53
ByteHash == 35
ByteLF == 10
ByteCR == 13
ByteSP == 32
Byte0 == 48

\* \s on a byte string: space, \t, \n, \v, \f, \r
IsSpace(b) == b \in {32, 9, 10, 11, 12, 13}
\* \d
IsDigit(b) == b \in Byte0..(Byte0 + 9)

\* where the maximal run of bytes satisfying Test, starting at i, ends
RunEnd(buf, i, Test(_)) ==
    CHOOSE j \in i..(Len(buf) + 1) :
        /\ \A k \in i..(j - 1) : Test(buf[k])
        /\ j = Len(buf) + 1 \/ ~Test(buf[j])

\* \s*, \d+ and .* (every byte but \n) are greedy: each takes the maximal run first
SkipSpace(buf, i) == RunEnd(buf, i, IsSpace)
SkipDigits(buf, i) == RunEnd(buf, i, IsDigit)
NotLF(b) == b # ByteLF
SkipLine(buf, i) == RunEnd(buf, i, NotLF)

\* \s*#.*[\r\n] at i: the positions it can end at, in the order the matcher
\* tries them.  \s* must stop at the '#'; .* is greedy and gives back one byte
\* at a time, so the closing [\r\n] is tried from the end of the line leftwards.
CommentEnds(buf, i) ==
    LET After(j) ==
            IF j > Len(buf) \/ buf[j] # ByteHash THEN <<>>
            ELSE LET Ends(e) ==
                         LET Shift(d) == [n \in 1..Len(d) |-> d[n] + 1] IN
                         With(DescSeq({k \in (j + 1)..Min(e, Len(buf)) :
                                          buf[k] \in {ByteLF, ByteCR}}), Shift)
                 IN  With(SkipLine(buf, j + 1), Ends)
    IN  With(SkipSpace(buf, i), After)

\* (?:\s*#.*[\r\n])* at i: the positions it can end at, in the matcher's order
\* (as many comments as possible first, none last).
RECURSIVE CommentsEnds(_, _)
CommentsEnds(buf, start) ==
    LET From(i) ==
            LET More(c) == Flatten([n \in 1..Len(c) |-> CommentsEnds(buf, c[n])]) \o <<i>>
            IN  With(CommentEnds(buf, i), More)
    IN  With(start, From)

\* (?:\s*#.*[\r\n])*(\d+)\s at i: the tokens it can match, in the matcher's
\* order: [s, e) are the digits, next is the position after the \s.  \d+ is
\* greedy and a shorter run is followed by a digit, never by \s.
TokenMatches(buf, i) ==
    LET Good(s) == LET IsToken(e) == e > s /\ e <= Len(buf) /\ IsSpace(buf[e])
                   IN  With(SkipDigits(buf, s), IsToken)
        Token(s) == LET Of(e) == [s |-> s, e |-> e, next |-> e + 1]
                    IN  With(SkipDigits(buf, s), Of)
        Tokens(good) == [n \in 1..Len(good) |-> Token(good[n])]
    IN  With(SelectSeq(CommentsEnds(buf, i), Good), Tokens)

\* (?:\s*#.*[\r\n]\s)* at i: where the greedy star ends; nothing follows it in
\* the pattern, so the first alternative of every iteration stands.
RECURSIVE TrailerEnd(_, _)
TrailerEnd(buf, start) ==
    LET From(i) ==
            LET Next1(c) ==
                    LET ok == {n \in 1..Len(c) : c[n] <= Len(buf) /\ IsSpace(buf[c[n]])}
                    IN  IF ok = {} THEN i
                        ELSE TrailerEnd(buf, c[CHOOSE n \in ok : \A m \in ok : n <= m] + 1)
            IN  With(CommentEnds(buf, i), Next1)
    IN  With(start, From)

\* The whole header: the first match in the matcher's order, or no match.
\* A token stands only if the rest of the pattern matches after it.
MatchHeader(buf) ==
    IF ~(Len(buf) >= 3 /\ buf[1] = ByteP /\ buf[2] = Byte5 /\ IsSpace(buf[3]))
    THEN [ok |-> FALSE]
    ELSE LET Has3(t) == TokenMatches(buf, t.next) # <<>>
             Heights(i) == SelectSeq(TokenMatches(buf, i), Has3)
             Has2(t) == Heights(t.next) # <<>>
             Pick(widths) ==
                 IF widths = <<>> THEN [ok |-> FALSE]
                 ELSE LET PickH(h) ==
                          LET PickM(m) ==
                                  [ok |-> TRUE, width |-> widths[1], height |-> h,
                                   maxval |-> m, end |-> TrailerEnd(buf, m.next)]
                          IN  With(TokenMatches(buf, h.next)[1], PickM)
                      IN  With(Heights(widths[1].next)[1], PickH)
         IN  With(SelectSeq(TokenMatches(buf, 4), Has2), Pick)

\* the decimal digits of n, as str(n) writes them
RECURSIVE Digits(_)
Digits(number) ==
    LET Of(n) == IF n < 10 THEN <<Byte0 + n>>
                 ELSE Digits(n \div 10) \o <<Byte0 + (n % 10)>>
    IN  With(number, Of)

\* int() of the decimal digits buf[s..e-1]
ParseInt(buf, s, e) ==
    LET val[k \in (s - 1)..(e - 1)] ==
            IF k < s THEN 0 ELSE 10 * val[k - 1] + (buf[k] - Byte0)
    IN  val[e - 1]

\* dtype 'u1' if int(maxval) < 256 else byteorder + 'u2': the bytes of a sample
ItemSize(maxval) == IF maxval < 256 THEN 1 ELSE 2

\* sample number n (0-based) of the buffer from byte offset `offset` on;
\* byteorder '>' puts the high byte first
Sample(buf, offset, size, n) ==
    IF size = 1 THEN buf[offset + n + 1]
    ELSE buf[offset + 2 * n + 1] * 256 + buf[offset + 2 * n + 2]

\* read_pgm on the bytes of the file
read_pgm(buf) ==
    LET Read(m) ==
            IF ~m.ok THEN Raise("ValueError")
            ELSE LET Shape(whm) ==
                         LET width == whm[1]
                             height == whm[2]
                             size == ItemSize(whm[3])
                             offset == m.end - 1
                             count == width * height
                         IN  \* np.frombuffer: the buffer must hold count items from offset on
                             IF offset + count * size > Len(buf) THEN Raise("ValueError")
                             ELSE [ok |-> TRUE,
                                   data |-> [r \in 1..height |-> [c \in 1..width |->
                                       Sample(buf, offset, size, (r - 1) * width + (c - 1))]]]
                 IN  With(<<ParseInt(buf, m.width.s, m.width.e),
                            ParseInt(buf, m.height.s, m.height.e),
                            ParseInt(buf, m.maxval.s, m.maxval.e)>>, Shape)
    IN  With(MatchHeader(buf), Read)

(***************************************************************************)
(* The channel split of raw_to_fits (split_channels and not interpolate).  *)
(***************************************************************************)
\* np.array(list(bayer_str)).reshape((2,2)): row-major; reshape raises
\* ValueError unless there are exactly 4 characters
bayer_pattern(bayer_str) ==
    IF Len(bayer_str) # 4 THEN Raise("ValueError")
    ELSE [ok |-> TRUE,
          tile |-> << <<bayer_str[1], bayer_str[2]>>, <<bayer_str[3], bayer_str[4]>> >>]

\* split_map = np.array([[(0,0),(0,1)],[(1,0),(1,1)]])
split_map == << << <<0, 0>>, <<0, 1>> >>, << <<1, 0>>, <<1, 1>> >> >>

\* split_map[bayer_pattern == letter]: the entries of split_map where the mask
\* holds, in row-major order
MaskSelect(tile, letter) ==
    LET cells == << <<1, 1>>, <<1, 2>>, <<2, 1>>, <<2, 2>> >>
        Hit(rc) == tile[rc[1]][rc[2]] = letter
        hits == SelectSeq(cells, Hit)
    IN  [n \in 1..Len(hits) |-> split_map[hits[n][1]][hits[n][2]]]

\* (a slicing slip: the row offset used for the columns too)
SliceRowOffsetTwice(grid, a, b) ==
    LET H == Len(grid)
        W == IF H = 0 THEN 0 ELSE Len(grid[1])
        nr == IF H > a THEN (H - a + 1) \div 2 ELSE 0
        nc == IF W > a THEN (W - a + 1) \div 2 ELSE 0
    IN  [i \in 1..nr |-> [j \in 1..nc |-> grid[a + 2 * (i - 1) + 1][a + 2 * (j - 1) + 1]]]

\* raw_data[a::2, b::2]
Slice(grid, a, b) ==
    LET H == Len(grid)
        W == IF H = 0 THEN 0 ELSE Len(grid[1])
        nr == IF H > a THEN (H - a + 1) \div 2 ELSE 0
        nc == IF W > b THEN (W - b + 1) \div 2 ELSE 0
    IN  [i \in 1..nr |-> [j \in 1..nc |-> grid[a + 2 * (i - 1) + 1][b + 2 * (j - 1) + 1]]]

\* which entry of the mask selection each channel takes: R [0], G1 [0], G2 [1], B [0]
ChannelLetter(name) == IF name \in {"G1", "G2"} THEN "G" ELSE name
\* (an indexing slip: G2 taking entry [0] like G1)
ChannelIndexAllFirst(name) == 0
ChannelIndex(name) == IF name = "G2" THEN 1 ELSE 0
ChannelNames == <<"R", "G1", "G2", "B">>

\* a,b = split_map[bayer_pattern == letter][k]: IndexError when the selection
\* has no entry k
ChannelOffset(tile, name) ==
    LET sel == MaskSelect(tile, ChannelLetter(name))
        k == ChannelIndex(name)
    IN  IF Len(sel) <= k THEN Raise("IndexError")
        ELSE [ok |-> TRUE, a |-> sel[k + 1][1], b |-> sel[k + 1][2]]

\* the four channels R, G1, G2, B of raw_data, or the first error raised
SplitChannels(grid, tile) ==
    LET offs == [n \in 1..4 |-> ChannelOffset(tile, ChannelNames[n])]
        bad == {n \in 1..4 : ~offs[n].ok}
    IN  IF bad # {} THEN Raise("IndexError")
        ELSE [ok |-> TRUE,
              chans |-> [n \in 1..4 |->
                  [name |-> ChannelNames[n], a |-> offs[n].a, b |-> offs[n].b,
                   data |-> Slice(grid, offs[n].a, offs[n].b)]]]

(***************************************************************************)
(* The metadata scrape of raw_to_fits.  The text dcraw prints is a         *)
(* sequence of lines, a line a sequence of tokens (the text between        *)
(* blanks).  A token the code only copies is a word; a token whose         *)
(* characters the code reads (a number, the time, the filter pattern) is   *)
(* a sequence of one-character strings.                                    *)
(***************************************************************************)
Word(w) == [t |-> "word", w |-> w, c |-> <<>>]
Chars(c) == [t |-> "chars", w |-> "", c |-> c]

DigitChars == <<"0", "1", "2", "3", "4", "5", "6", "7", "8", "9">>
IsDigitChar(ch) == \E i \in 1..10 : DigitChars[i] = ch
DigitValue(ch) == (CHOOSE i \in 1..10 : DigitChars[i] = ch) - 1

\* int(token): ValueError unless the token is a non-empty run of digits
IntOfChars(c) ==
    LET val[k \in 0..Len(c)] == IF k = 0 THEN 0 ELSE 10 * val[k - 1] + DigitValue(c[k])
    IN  val[Len(c)]
ParsesAsInt(c) == c # <<>> /\ \A i \in 1..Len(c) : IsDigitChar(c[i])

\* str.split(':') of a sequence of characters
SplitColon(c) ==
    LET Parts(at) ==
            \* at: the places of the colons, and the two ends
            [n \in 1..(Len(at) - 1) |-> SubSeq(c, at[n] + 1, at[n + 1] - 1)]
        Asc(d) == [n \in 1..Len(d) |-> d[Len(d) + 1 - n]]
    IN  With(Asc(DescSeq({i \in 1..Len(c) : c[i] = ":"} \cup {0, Len(c) + 1})), Parts)

\* '{0:%Y-%m-%d %H:%M:%S}': n in decimal, zero-padded to width w
Pad(n, w) == [k \in 1..w |-> DigitChars[((n \div (10 ^ (w - k))) % 10) + 1]]

\* the months table of line 98
months ==
    [name \in {"Jan", "Feb", "Mar", "Apr", "May", "Jun", "Jul", "Aug", "Sep", "Oct",
               "Nov", "Dec"} |->
        CASE name = "Jan" -> 1 [] name = "Feb" -> 2 [] name = "Mar" -> 3
          [] name = "Apr" -> 4 [] name = "May" -> 5 [] name = "Jun" -> 6
          [] name = "Jul" -> 7 [] name = "Aug" -> 8 [] name = "Sep" -> 9
          [] name = "Oct" -> 10 [] name = "Nov" -> 11 [] name = "Dec" -> 12]

\* datetime.datetime's own check of its arguments
DaysIn(y, m) ==
    IF m \in {4, 6, 9, 11} THEN 30
    ELSE IF m # 2 THEN 31
    ELSE IF (y % 4 = 0 /\ y % 100 # 0) \/ y % 400 = 0 THEN 29 ELSE 28
ValidDateTime(y, mo, d, h, mi, sec) ==
    /\ y \in 1..9999 /\ mo \in 1..12 /\ d \in 1..DaysIn(y, mo)
    /\ h \in 0..23 /\ mi \in 0..59 /\ sec \in 0..59

\* (a scrape that defaults instead of failing: an absent label gives an empty value)
FindOrEmpty(text, label, suffix) ==
    LET Starts(line) ==
            {k \in 1..(Len(line) - Len(label) + 1) :
                /\ \A j \in 1..Len(label) : line[k + j - 1] = Word(label[j])
                /\ suffix # "" =>
                     \E e \in (k + Len(label))..Len(line) : line[e] = Word(suffix)}
        lines == {n \in 1..Len(text) : Starts(text[n]) # {}}
    IN  IF lines = {} THEN [ok |-> TRUE, toks |-> <<>>]
        ELSE LET n == CHOOSE x \in lines : \A y \in lines : x <= y
                 line == text[n]
                 k == CHOOSE x \in Starts(line) : \A y \in Starts(line) : x <= y
                 from == k + Len(label)
                 upto == IF suffix = "" THEN Len(line)
                         ELSE (CHOOSE e \in from..Len(line) :
                                  /\ line[e] = Word(suffix)
                                  /\ \A f \in (e + 1)..Len(line) : line[f] # Word(suffix)) - 1
             IN  [ok |-> TRUE, toks |-> SubSeq(line, from, upto)]

\* re.search('(?<=label).*(?=suffix)', rawheader): the leftmost place in the
\* text where the label ends and, on the same line, the suffix follows; .* is
\* greedy, so the value runs to the last suffix on the line (to the end of the
\* line when there is no suffix).  No match: m is None and m.group raises
\* AttributeError.
Find(text, label, suffix) ==
    LET Starts(line) ==
            {k \in 1..(Len(line) - Len(label) + 1) :
                /\ \A j \in 1..Len(label) : line[k + j - 1] = Word(label[j])
                /\ suffix # "" =>
                     \E e \in (k + Len(label))..Len(line) : line[e] = Word(suffix)}
        lines == {n \in 1..Len(text) : Starts(text[n]) # {}}
    IN  IF lines = {} THEN Raise("AttributeError")
        ELSE LET n == CHOOSE x \in lines : \A y \in lines : x <= y
                 line == text[n]
                 k == CHOOSE x \in Starts(line) : \A y \in Starts(line) : x <= y
                 from == k + Len(label)
                 upto == IF suffix = "" THEN Len(line)
                         ELSE (CHOOSE e \in from..Len(line) :
                                  /\ line[e] = Word(suffix)
                                  /\ \A f \in (e + 1)..Len(line) : line[f] # Word(suffix)) - 1
             IN  [ok |-> TRUE, toks |-> SubSeq(line, from, upto)]

\* the eight scrapes of lines 96..133, in the code's order: label and suffix
Scrapes ==
    << [label |-> <<"Timestamp:">>, suffix |-> ""],
       [label |-> <<"Shutter:">>, suffix |-> "sec"],
       [label |-> <<"Aperture:", "f/">>, suffix |-> ""],
       [label |-> <<"ISO speed:">>, suffix |-> ""],
       [label |-> <<"Focal length:">>, suffix |-> "mm"],
       [label |-> <<"Filename:">>, suffix |-> ""],
       [label |-> <<"Camera:">>, suffix |-> ""],
       [label |-> <<"Filter pattern:">>, suffix |-> ""] >>

\* lines 97..100: the timestamp's tokens to 'YYYY-mm-dd HH:MM:SS'
ParseDate(date1) ==
    IF Len(date1) < 5 THEN Raise("IndexError")
    ELSE IF ~ParsesAsInt(date1[5].c) THEN Raise("ValueError")
    ELSE IF date1[2].w \notin DOMAIN months THEN Raise("KeyError")
    ELSE IF ~ParsesAsInt(date1[3].c) THEN Raise("ValueError")
    ELSE LET hms == SplitColon(date1[4].c) IN
         IF ~ParsesAsInt(hms[1]) THEN Raise("ValueError")
         ELSE IF Len(hms) < 2 THEN Raise("IndexError")
         ELSE IF ~ParsesAsInt(hms[2]) THEN Raise("ValueError")
         ELSE IF Len(hms) < 3 THEN Raise("IndexError")
         ELSE IF ~ParsesAsInt(hms[3]) THEN Raise("ValueError")
         ELSE LET y == IntOfChars(date1[5].c)
                  mo == months[date1[2].w]
                  d == IntOfChars(date1[3].c)
                  h == IntOfChars(hms[1])
                  mi == IntOfChars(hms[2])
                  sec == IntOfChars(hms[3])
              IN  IF ~ValidDateTime(y, mo, d, h, mi, sec) THEN Raise("ValueError")
                  ELSE [ok |-> TRUE,
                        date |-> Pad(y, 4) \o <<"-">> \o Pad(mo, 2) \o <<"-">> \o Pad(d, 2)
                                 \o <<" ">> \o Pad(h, 2) \o <<":">> \o Pad(mi, 2)
                                 \o <<":">> \o Pad(sec, 2)]

\* m.group(0).strip() of copied tokens: their texts, in order
Texts(tokens) ==
    LET Of(toks) ==
            Flatten([n \in 1..Len(toks) |->
                (IF toks[n].t = "word" THEN <<toks[n].w>> ELSE toks[n].c)
                    \o (IF n < Len(toks) THEN <<" ">> ELSE <<>>)])
    IN  With(tokens, Of)

\* lines 95..135: the eight fields, or the first error raised
Extract(text) ==
    LET Fields(found) ==
            LET Rest(date) ==
                    IF ~date.ok THEN date
                    ELSE IF \E n \in 2..8 : ~found[n].ok THEN Raise("AttributeError")
                    ELSE LET Tiled(bayer_str) ==
                                 LET Record(tile) ==
                                         IF ~tile.ok THEN tile
                                         ELSE [ok |-> TRUE, date |-> date.date,
                                               shutter |-> Texts(found[2].toks),
                                               aperture |-> Texts(found[3].toks),
                                               iso |-> Texts(found[4].toks),
                                               focal |-> Texts(found[5].toks),
                                               original_file |-> Texts(found[6].toks),
                                               camera |-> Texts(found[7].toks),
                                               bayer_str |-> bayer_str,
                                               tile |-> tile.tile]
                                 IN  With(bayer_pattern(bayer_str), Record)
                             First4(str) == SubSeq(str, 1, Min(4, Len(str)))
                         IN  With(With(Texts(found[8].toks), First4), Tiled)
            IN  With(IF found[1].ok THEN ParseDate(found[1].toks) ELSE found[1], Rest)
    IN  With([n \in 1..8 |-> Find(text, Scrapes[n].label, Scrapes[n].suffix)], Fields)

(***************************************************************************)
(* The FITS container: hdu.header as a sequence of cards [key, value] and  *)
(* a sequence of comment lines.                                            *)
(***************************************************************************)
\* pf.PrimaryHDU(data), pf.ImageHDU(data)
NewHDU(kind, data) == [kind |-> kind, data |-> data, cards |-> <<>>, comments |-> <<>>]

\* hdu.header.update(key, value): the card of that key replaced, or a new last card
HeaderUpdate(hdu, key, value) ==
    LET at == {i \in 1..Len(hdu.cards) : hdu.cards[i].key = key} IN
    IF at = {} THEN [hdu EXCEPT !.cards = Append(@, [key |-> key, value |-> value])]
    ELSE [hdu EXCEPT !.cards = [i \in 1..Len(@) |->
                                   IF i \in at THEN [key |-> key, value |-> value] ELSE @[i]]]

\* hdu.header.add_comment(text)
AddComment(hdu, text) == [hdu EXCEPT !.comments = Append(@, text)]

\* _update_header(hdu), lines 137..148
update_header(hdu, m) ==
    LET h1 == HeaderUpdate(hdu, "OBSTIME", m.date)
        h2 == HeaderUpdate(h1, "EXPTIME", m.shutter)
        h3 == HeaderUpdate(h2, "APERTUR", m.aperture)
        h4 == HeaderUpdate(h3, "ISO", m.iso)
        h5 == HeaderUpdate(h4, "FOCAL", m.focal)
        h6 == HeaderUpdate(h5, "ORIGIN", m.original_file)
        h7 == HeaderUpdate(h6, "CAMERA", m.camera)
        h8 == HeaderUpdate(h7, "BAYERPA", m.bayer_str)
    IN  AddComment(AddComment(AddComment(h8, "EXPTIME is in seconds."),
                              "APERTUR is the ratio as in f/APERTUR"),
                   "FOCAL is in mm")

\* (a labelling slip: the filter's letter instead of the channel's name)
FilterValueLetter(name) == <<ChannelLetter(name)>>
\* the value of the FILTER card of a channel's unit: lines 164, 170, 176, 182
FilterValue(name) == <<name>>

\* lines 152..192: the HDUList, or the error the split raises
BuildHDUList(a, raw, m) ==
    IF a.interpolate
    THEN [ok |-> TRUE, hdus |-> <<update_header(NewHDU("Primary", raw), m)>>]
    ELSE IF a.split_channels
    THEN LET sp == SplitChannels(raw, m.tile) IN
         IF ~sp.ok THEN sp
         ELSE [ok |-> TRUE,
               hdus |-> [n \in 1..4 |->
                   HeaderUpdate(
                       update_header(NewHDU(IF n = 1 THEN "Primary" ELSE "Image",
                                            sp.chans[n].data), m),
                       "FILTER", FilterValue(sp.chans[n].name))]]
    ELSE [ok |-> TRUE,
          hdus |-> <<AddComment(update_header(NewHDU("Primary", raw), m),
                                "BAYERPA is the Bayer filter pattern")>>]

(***************************************************************************)
(* Files.  A path is a stem and an extension; the file system maps every   *)
(* path of the model to its content.                                       *)
(***************************************************************************)
Path(stem, ext) == [stem |-> stem, ext |-> ext]
IMG_CR2 == Path("IMG_1204", "CR2")
IMG_NEF == Path("IMG_1204", "NEF")
DSC_NEF == Path("DSC_0001", "NEF")
GONE_CR2 == Path("GONE", "CR2")
OUT_FITS == Path("out", "fits")
SourcePaths == {IMG_CR2, IMG_NEF, DSC_NEF, GONE_CR2}
AllPaths ==
    SourcePaths \cup {OUT_FITS}
        \cup {Path(p.stem, e) : p \in SourcePaths, e \in {"pgm", "ppm"}}
\* fits_filename=None
None == Path("", "None")

Absent == [kind |-> "absent"]
Unset == [ok |-> FALSE, err |-> "unset"]
NoResult == [kind |-> "none", err |-> ""]
Failed(cls) == [kind |-> "error", err |-> cls]

\* (a sibling name that forgets the stem: every source decodes to one file)
SiblingFixedStem(filename, ext) == Path("dcraw_out", ext)
\* os.path.splitext(filename)[0] + ".ppm" / ".pgm": lines 55, 62
Sibling(filename, ext) == Path(filename.stem, ext)

\* (a check that lets every path through)
ExistsAlways(fsys, filename) == TRUE
\* os.path.exists(filename): line 48
Exists(fsys, filename) == filename \in DOMAIN fsys /\ fsys[filename].kind # "absent"

\* what the sensor recorded in each raw file: 2x2 samples of 16 bits
Sensor(filename) ==
    CASE filename = IMG_CR2 -> << <<1, 2>>, <<3, 258>> >>
      [] filename = IMG_NEF -> << <<5, 6>>, <<7, 8>> >>
      [] OTHER -> << <<9, 10>>, <<11, 12>> >>
\* what an earlier session left in DSC_0001.pgm
StaleGrid == << <<21, 22>>, <<23, 24>> >>

\* the bytes of the samples of a grid, 16 bits each, high byte first
BigEndian16(samples) ==
    [k \in 1..(2 * Len(samples)) |->
        IF k % 2 = 1 THEN samples[(k + 1) \div 2] \div 256 ELSE samples[k \div 2] % 256]

\* dcraw -D -4: "P5\n<width> <height>\n65535\n" and the samples, 16 bits big-endian
DcrawPgm(grid) ==
    <<ByteP, Byte5, ByteLF>> \o Digits(Len(grid[1])) \o <<ByteSP>> \o Digits(Len(grid))
        \o <<ByteLF>> \o Digits(65535) \o <<ByteLF>> \o BigEndian16(Flatten(grid))

\* dcraw -q 1 -f -v -a: every sample interpolated to a colour triple
DcrawPpm(grid) ==
    [r \in 1..Len(grid) |-> [c \in 1..Len(grid[r]) |->
        <<grid[r][c], grid[r][c], grid[r][c]>>]]

\* the sibling file a decode invocation writes
DecodeOutput(filename, interpolate) ==
    IF interpolate THEN [kind |-> "ppm", data |-> DcrawPpm(Sensor(filename))]
    ELSE [kind |-> "pgm", bytes |-> DcrawPgm(Sensor(filename))]

SiblingExt(interpolate) == IF interpolate THEN "ppm" ELSE "pgm"

\* lines 51..65 after the decode invocation: the pixel data read from the
\* sibling file.  Image is never imported, so line 56 raises NameError
\* before it opens the .ppm file.
ReadSiblingFile(fsys, filename, interpolate) ==
    IF interpolate THEN Raise("NameError")
    ELSE LET f == Sibling(filename, "pgm") IN
         IF ~(f \in DOMAIN fsys /\ fsys[f].kind # "absent") THEN Raise("IOError")
         ELSE read_pgm(fsys[f].bytes)

\* raw_to_fits(raw_filename, fits_filename=None, split_channels=False, interpolate=True)
DefaultSplitChannels == FALSE
DefaultInterpolate == TRUE

(***************************************************************************)
(* The text dcraw -i -v prints.                                            *)
(***************************************************************************)
RGGB16 == Chars(<<"R", "G", "G", "B", "R", "G", "G", "B", "R", "G", "G", "B",
                  "R", "G", "G", "B">>)
TimeTok == Chars(<<"1", "3", ":", "0", "7", ":", "4", "2">>)
HeaderText(month, filter) ==
    << <<Word("Filename:"), Word("IMG_1204.CR2")>>,
       <<Word("Timestamp:"), Word("Mon"), Word(month), Chars(<<"5">>), TimeTok,
         Chars(<<"2", "0", "0", "9">>)>>,
       <<Word("Camera:"), Word("Canon"), Word("EOS"), Word("450D")>>,
       <<Word("ISO speed:"), Word("400")>>,
       <<Word("Shutter:"), Word("1/60.0"), Word("sec")>>,
       <<Word("Aperture:"), Word("f/"), Word("5.6")>>,
       <<Word("Focal length:"), Word("50.0"), Word("mm")>>,
       <<Word("Filter pattern:"), filter>> >>
FullText == HeaderText("Jan", RGGB16)
\* the text without the line of one label
Without(text, label) ==
    LET Keep(line) == line[1] # Word(label) IN SelectSeq(text, Keep)
Labels ==
    {"Timestamp:", "Shutter:", "Aperture:", "ISO speed:", "Focal length:", "Filename:",
     "Camera:", "Filter pattern:"}
\* the texts a conversion may be given: complete ones with several filter
\* patterns (also "RG/GB", as later dcraw versions print it, and a 3-letter
\* one), one with an unknown month, and one per missing label
HeaderTexts ==
    {FullText,
     HeaderText("Jan", Chars(<<"G", "B", "R", "G">>)),
     HeaderText("Jan", Chars(<<"R", "G", "/", "G", "B">>)),
     HeaderText("Jan", Chars(<<"R", "G", "B">>)),
     HeaderText("Foo", RGGB16)}
        \cup {Without(FullText, l) : l \in Labels}
\* whether the label of scrape n occurs in the text at all
HasLabel(text, label) ==
    \E n \in 1..Len(text) : \E k \in 1..Len(text[n]) : text[n][k] = Word(label)

(***************************************************************************)
(* Conversions: raw_to_fits, one step per access to the file system or     *)
(* the external decoder.                                                   *)
(***************************************************************************)
Procs == {1, 2}

\* the parts of the state a specification does not use stay as they start
InitConvIdle ==
    /\ fs = <<>> /\ pc = <<>> /\ args = <<>> /\ raw_data = <<>> /\ meta = <<>>
    /\ rawheader = <<>>
    /\ hdulist = <<>> /\ result = <<>> /\ nDecode = <<>> /\ nMeta = <<>>
    /\ decodeOk = <<>> /\ fs0 = <<>> /\ overlapped = FALSE

InitSplitIdle ==
    /\ spPc = "off" /\ spGrid = <<>> /\ spBayer = <<>> /\ spOut = <<>>

InitPgmIdle ==
    /\ pgmPc = "off" /\ pgmBuf = <<>> /\ pgmIn = <<>> /\ pgmOut = <<>>


InitFs ==
    [f \in AllPaths |->
        IF f \in {IMG_CR2, IMG_NEF, DSC_NEF} THEN [kind |-> "raw"]
        ELSE IF f = Path("DSC_0001", "pgm")
        THEN [kind |-> "pgm", bytes |-> DcrawPgm(StaleGrid)]
        ELSE Absent]

InitConv ==
    /\ fs = InitFs
    /\ pc = [p \in Procs |-> "idle"]
    /\ args = [p \in Procs |->
                 [raw_filename |-> GONE_CR2, fits_filename |-> None,
                  split_channels |-> DefaultSplitChannels,
                  interpolate |-> DefaultInterpolate]]
    /\ raw_data = [p \in Procs |-> Unset]
    /\ rawheader = [p \in Procs |-> <<>>]
    /\ meta = [p \in Procs |-> Unset]
    /\ hdulist = [p \in Procs |-> <<>>]
    /\ result = [p \in Procs |-> NoResult]
    /\ nDecode = [p \in Procs |-> 0]
    /\ nMeta = [p \in Procs |-> 0]
    /\ decodeOk = [p \in Procs |-> FALSE]
    /\ fs0 = [p \in Procs |-> InitFs]
    /\ overlapped = FALSE

\* the failure of a conversion: the exception leaves raw_to_fits
Fail(p, cls) ==
    /\ result' = [result EXCEPT ![p] = Failed(cls)]
    /\ pc' = [pc EXCEPT ![p] = "done"]

\* a call of raw_to_fits: line 67
Call(p, from, files, fits) ==
    /\ pc[p] \in from
    /\ \E f \in files, o \in fits, sc \in BOOLEAN, ip \in BOOLEAN :
          args' = [args EXCEPT ![p] =
                      [raw_filename |-> f, fits_filename |-> o,
                       split_channels |-> sc, interpolate |-> ip]]
    /\ pc' = [pc EXCEPT ![p] = "exists"]
    /\ raw_data' = [raw_data EXCEPT ![p] = Unset]
    /\ rawheader' = [rawheader EXCEPT ![p] = <<>>]
    /\ meta' = [meta EXCEPT ![p] = Unset]
    /\ hdulist' = [hdulist EXCEPT ![p] = <<>>]
    /\ result' = [result EXCEPT ![p] = NoResult]
    /\ nDecode' = [nDecode EXCEPT ![p] = 0]
    /\ nMeta' = [nMeta EXCEPT ![p] = 0]
    /\ decodeOk' = [decodeOk EXCEPT ![p] = FALSE]
    /\ fs0' = [fs0 EXCEPT ![p] = fs]
    /\ UNCHANGED <<fs, overlapped, pgmVars, spVars>>

\* read_raw, lines 48..49
CheckExists(p) ==
    /\ pc[p] = "exists"
    /\ IF Exists(fs, args[p].raw_filename)
       THEN pc' = [pc EXCEPT ![p] = "decode"] /\ UNCHANGED result
       ELSE Fail(p, "IOError")
    /\ UNCHANGED <<fs, args, raw_data, rawheader, meta, hdulist, nDecode, nMeta,
                   decodeOk, fs0, overlapped, pgmVars, spVars>>

\* read_raw, lines 53 and 60: dcraw runs to its end and either wrote the
\* sibling file or did not; its exit status is not looked at
Decode(p) ==
    /\ pc[p] = "decode"
    /\ nDecode' = [nDecode EXCEPT ![p] = @ + 1]
    /\ \E wrote \in (IF fs[args[p].raw_filename].kind = "raw" THEN BOOLEAN ELSE {FALSE}) :
          /\ decodeOk' = [decodeOk EXCEPT ![p] = wrote]
          /\ fs' = IF wrote
                   THEN [f \in DOMAIN fs \cup
                              {Sibling(args[p].raw_filename, SiblingExt(args[p].interpolate))} |->
                           IF f = Sibling(args[p].raw_filename, SiblingExt(args[p].interpolate))
                           THEN DecodeOutput(args[p].raw_filename, args[p].interpolate)
                           ELSE fs[f]]
                   ELSE fs
    /\ overlapped' = (overlapped \/ \E q \in Procs \ {p} : pc[q] = "read")
    /\ pc' = [pc EXCEPT ![p] = "read"]
    /\ UNCHANGED <<args, raw_data, rawheader, meta, hdulist, result, nMeta, fs0,
                   pgmVars, spVars>>

\* read_raw, lines 55..56 and 62..65
ReadSibling(p) ==
    /\ pc[p] = "read"
    /\ LET r == ReadSiblingFile(fs, args[p].raw_filename, args[p].interpolate) IN
       IF r.ok
       THEN /\ raw_data' = [raw_data EXCEPT ![p] = r]
            /\ pc' = [pc EXCEPT ![p] = "meta"]
            /\ UNCHANGED result
       ELSE /\ Fail(p, r.err)
            /\ UNCHANGED raw_data
    /\ UNCHANGED <<fs, args, rawheader, meta, hdulist, nDecode, nMeta, decodeOk, fs0,
                   overlapped, pgmVars, spVars>>

\* raw_to_fits, lines 92..135: the metadata invocation and the scrape of its text
Metadata(p, texts) ==
    /\ pc[p] = "meta"
    /\ nMeta' = [nMeta EXCEPT ![p] = @ + 1]
    /\ \E text \in texts :
          /\ rawheader' = [rawheader EXCEPT ![p] = text]
          /\ LET m == Extract(text) IN
             IF m.ok
             THEN /\ meta' = [meta EXCEPT ![p] = m]
                  /\ pc' = [pc EXCEPT ![p] = "assemble"]
                  /\ UNCHANGED result
             ELSE /\ Fail(p, m.err)
                  /\ UNCHANGED meta
    /\ UNCHANGED <<fs, args, raw_data, hdulist, nDecode, decodeOk, fs0, overlapped,
                   pgmVars, spVars>>

\* raw_to_fits, lines 152..192
Assemble(p) ==
    /\ pc[p] = "assemble"
    /\ LET h == BuildHDUList(args[p], raw_data[p].data, meta[p]) IN
       IF h.ok
       THEN /\ hdulist' = [hdulist EXCEPT ![p] = h.hdus]
            /\ pc' = [pc EXCEPT ![p] = "output"]
            /\ UNCHANGED result
       ELSE /\ Fail(p, h.err)
            /\ UNCHANGED hdulist
    /\ UNCHANGED <<fs, args, raw_data, rawheader, meta, nDecode, nMeta, decodeOk, fs0,
                   overlapped, pgmVars, spVars>>

\* raw_to_fits, lines 194..197: hdulist.writeto refuses a path that exists
Output(p) ==
    /\ pc[p] = "output"
    /\ IF args[p].fits_filename = None
       THEN /\ result' = [result EXCEPT ![p] = [kind |-> "returned", err |-> ""]]
            /\ pc' = [pc EXCEPT ![p] = "done"]
            /\ UNCHANGED fs
       ELSE IF fs[args[p].fits_filename].kind # "absent"
       THEN /\ Fail(p, "IOError")
            /\ UNCHANGED fs
       ELSE /\ fs' = [fs EXCEPT ![args[p].fits_filename] =
                         [kind |-> "fits", hdus |-> hdulist[p]]]
            /\ result' = [result EXCEPT ![p] = [kind |-> "written", err |-> ""]]
            /\ pc' = [pc EXCEPT ![p] = "done"]
    /\ UNCHANGED <<args, raw_data, rawheader, meta, hdulist, nDecode, nMeta, decodeOk,
                   fs0, overlapped, pgmVars, spVars>>

\* Spec: one caller, one conversion after another on the same file system
SeqFiles == {IMG_CR2, IMG_NEF, GONE_CR2}

Init == InitConv /\ InitPgmIdle /\ InitSplitIdle

Next ==
    \/ Call(1, {"idle", "done"}, SeqFiles, {None, OUT_FITS})
    \/ CheckExists(1)
    \/ Decode(1)
    \/ ReadSibling(1)
    \/ Metadata(1, HeaderTexts)
    \/ Assemble(1)
    \/ Output(1)

Spec == Init /\ [][Next]_vars

\* SpecConc: two callers, one conversion each, their steps interleaved
ConcFiles == {IMG_CR2, IMG_NEF, DSC_NEF}

NextConc ==
    \E p \in Procs :
        \/ Call(p, {"idle"}, ConcFiles, {None})
        \/ CheckExists(p)
        \/ Decode(p)
        \/ ReadSibling(p)
        \/ Metadata(p, {FullText})
        \/ Assemble(p)
        \/ Output(p)

SpecConc == Init /\ [][NextConc]_vars

(***************************************************************************)
(* SpecPgm: read_pgm applied to buffers put together from a magic tag,     *)
(* separators, decimal numbers and a raster.                               *)
(***************************************************************************)
\* separators between header tokens: "\n", "\n#c\n", and two spaces
SepLF == <<ByteLF>>
SepComment == <<ByteLF, ByteHash, 99, ByteLF>>
SepTwo == <<ByteSP, ByteSP>>
Seps == {SepLF, SepComment, SepTwo}
MaxVals == {255, 65535}
\* the bytes the raster's first samples are drawn from: '#', '\n', ' ' and 7
RasterBytes == {ByteHash, ByteLF, ByteSP, 7}

\* rasters of n bytes: the first RasterFree bytes free, then a ramp
Rasters(n) ==
    LET k == Min(n, RasterFree) IN
    {[i \in 1..n |-> IF i <= k THEN f[i] ELSE (100 + i) % 256] :
        f \in [1..k -> RasterBytes]}

BuildPgm(in) ==
    <<ByteP, Byte5>> \o in.seps[1] \o Digits(in.w) \o in.seps[2] \o Digits(in.h)
        \o in.seps[3] \o Digits(in.maxval) \o <<ByteLF>> \o in.raster

PgmInputs ==
    UNION {UNION {UNION {
        {[seps |-> s, w |-> w, h |-> h, maxval |-> m, raster |-> r] :
            s \in [1..3 -> Seps],
            r \in UNION {Rasters(w * h * ItemSize(m) + x) : x \in 0..MaxExtra}}
        : m \in MaxVals} : h \in 1..MaxDim} : w \in 1..MaxDim}

InitPgm ==
    /\ pgmPc = "init"
    /\ pgmIn \in PgmInputs
    /\ pgmBuf = BuildPgm(pgmIn)
    /\ pgmOut = <<>>
    /\ InitSplitIdle
    /\ InitConvIdle

ReadPgmCall ==
    /\ pgmPc = "init"
    /\ pgmOut' = read_pgm(pgmBuf)
    /\ pgmPc' = "done"
    /\ UNCHANGED <<pgmBuf, pgmIn, spVars, convVars>>

NextPgm == ReadPgmCall

SpecPgm == InitPgm /\ [][NextPgm]_vars

(***************************************************************************)
(* SpecSplit: the channel split applied to grids of every shape up to      *)
(* MaxSide by MaxSide and to every 4-letter string over R, G, B.           *)
(***************************************************************************)
\* a grid whose cells are all different, and one whose cells repeat
GridOf(H, W, fill) ==
    [r \in 1..H |-> [c \in 1..W |->
        IF fill = "index" THEN (r - 1) * W + c ELSE ((r - 1) * W + c) % 3]]

SplitGrids == {GridOf(H, W, f) : H \in 1..MaxSide, W \in 1..MaxSide, f \in {"index", "mod3"}}
BayerStrings == [1..4 -> {"R", "G", "B"}]

InitSplit ==
    /\ spPc = "init"
    /\ spGrid \in SplitGrids
    /\ spBayer \in BayerStrings
    /\ spOut = <<>>
    /\ InitPgmIdle
    /\ InitConvIdle

SplitCall ==
    /\ spPc = "init"
    /\ spOut' = LET t == bayer_pattern(spBayer) IN
                 IF t.ok THEN SplitChannels(spGrid, t.tile) ELSE t
    /\ spPc' = "done"
    /\ UNCHANGED <<spGrid, spBayer, pgmVars, convVars>>

NextSplit == SplitCall

SpecSplit == InitSplit /\ [][NextSplit]_vars

(***************************************************************************)
(* Properties of the channel split (SpecSplit).                            *)
(***************************************************************************)
\* how many of the 4 characters of s are the letter x
CountOf(s, x) == Cardinality({k \in 1..Len(s) : s[k] = x})
\* exactly one R, two G and one B
StandardBayer(s) ==
    Len(s) = 4 /\ CountOf(s, "R") = 1 /\ CountOf(s, "G") = 2 /\ CountOf(s, "B") = 1
\* the (row, col) place in the 2x2 tile of character k (1..4) of the string
TilePlace(k) == <<(k - 1) \div 2, (k - 1) % 2>>
\* the k of the n-th occurrence (n = 1, 2) of letter x in s, scanning left to right
NthIndex(s, x, n) ==
    CHOOSE k \in 1..Len(s) :
        s[k] = x /\ Cardinality({j \in 1..(k - 1) : s[j] = x}) = n - 1
EvenGrid(g) == Len(g) % 2 = 0 /\ Len(g[1]) % 2 = 0
\* the channels written back at their offsets with stride 2, in the order
\* R, G1, G2, B; a cell no channel writes stays "hole"
Reassemble(chans, H, W) ==
    [r \in 1..H |-> [c \in 1..W |->
        LET over == {n \in 1..4 : chans[n].a = (r - 1) % 2 /\ chans[n].b = (c - 1) % 2}
        IN  IF over = {} THEN "hole"
            ELSE LET n == CHOOSE x \in over : \A y \in over : y <= x IN
                 chans[n].data[((r - 1) \div 2) + 1][((c - 1) \div 2) + 1]]]

\* C4: for an even-by-even grid and a standard Bayer arrangement the four
\* channels partition the grid: each cell (r, c) lies in exactly one channel,
\* the one at tile offset (r mod 2, c mod 2), at (r div 2, c div 2); every
\* channel has shape (H/2, W/2); writing the channels back with stride 2
\* gives the grid again.
C4_SplitPartitions ==
    (spPc = "done" /\ EvenGrid(spGrid) /\ StandardBayer(spBayer)) =>
        /\ spOut.ok
        /\ LET H == Len(spGrid)
               W == Len(spGrid[1])
               ch == spOut.chans
           IN  /\ \A n \in 1..4 :
                      /\ Len(ch[n].data) = H \div 2
                      /\ \A i \in 1..(H \div 2) : Len(ch[n].data[i]) = W \div 2
               /\ \A r \in 0..(H - 1), c \in 0..(W - 1) :
                      LET at == {n \in 1..4 : ch[n].a = r % 2 /\ ch[n].b = c % 2} IN
                      /\ Cardinality(at) = 1
                      /\ \A n \in at :
                             ch[n].data[(r \div 2) + 1][(c \div 2) + 1] = spGrid[r + 1][c + 1]
               /\ Reassemble(ch, H, W) = spGrid

C4_Witness ==
    /\ spPc = "done" /\ spOut.ok
    /\ spBayer = <<"G", "B", "R", "G">>
    /\ spGrid = GridOf(4, 2, "index")
    /\ spOut.chans[1].data = << <<3>>, <<7>> >>

\* C5: for a standard Bayer string, R and B are split at the tile place of
\* their letter, G1 at the place of the first G and G2 at the place of the
\* second G in row-major order; RGGB gives R=(0,0), G1=(0,1), G2=(1,0),
\* B=(1,1); G1 and G2 never share an offset.
C5_SplitOffsets ==
    (spPc = "done" /\ StandardBayer(spBayer)) =>
        /\ spOut.ok
        /\ LET ch == spOut.chans
               Off(n) == <<ch[n].a, ch[n].b>>
           IN  /\ Off(1) = TilePlace(NthIndex(spBayer, "R", 1))
               /\ Off(2) = TilePlace(NthIndex(spBayer, "G", 1))
               /\ Off(3) = TilePlace(NthIndex(spBayer, "G", 2))
               /\ Off(4) = TilePlace(NthIndex(spBayer, "B", 1))
               /\ Off(2) # Off(3)
               /\ spBayer = <<"R", "G", "G", "B">> =>
                      /\ Off(1) = <<0, 0>> /\ Off(2) = <<0, 1>>
                      /\ Off(3) = <<1, 0>> /\ Off(4) = <<1, 1>>

C5_Witness ==
    /\ spPc = "done" /\ spOut.ok
    /\ spBayer = <<"B", "G", "R", "G">>
    /\ <<spOut.chans[3].a, spOut.chans[3].b>> = <<1, 1>>

(***************************************************************************)
(* Properties of read_pgm (SpecPgm).                                       *)
(***************************************************************************)
\* the grid the raster of a buffer holds: sample r*W + c of the bytes after the
\* header, one byte each when maxval < 256, else two bytes, high byte first
RasterGrid(in) ==
    [r \in 1..in.h |-> [c \in 1..in.w |->
        LET n == (r - 1) * in.w + (c - 1) IN
        IF in.maxval < 256 THEN in.raster[n + 1]
        ELSE in.raster[2 * n + 1] * 256 + in.raster[2 * n + 2]]]

\* C9: for a well-formed raw PGM buffer (P5, width, height and maxval
\* separated by white space or comment lines, then at least W*H samples)
\* read_pgm returns the (H, W) grid of the samples that follow the header.
C9_ReadPgmWellFormed ==
    (pgmPc = "done" /\ \A k \in 1..3 : pgmIn.seps[k] \in {SepLF, SepComment}) =>
        pgmOut.ok /\ pgmOut.data = RasterGrid(pgmIn)

(***************************************************************************)
(* Properties of conversions (Spec: one caller).                           *)
(***************************************************************************)
Done(p) == pc[p] = "done"
Completed(p) == Done(p) /\ result[p].kind \in {"returned", "written"}
HasCard(hdu, key) == \E i \in 1..Len(hdu.cards) : hdu.cards[i].key = key
CardValue(hdu, key) ==
    hdu.cards[CHOOSE i \in 1..Len(hdu.cards) : hdu.cards[i].key = key].value
\* the characters dcraw printed after "Filter pattern:"
FilterChars(text) ==
    text[CHOOSE n \in 1..Len(text) : text[n][1] = Word("Filter pattern:")][2].c
\* the conversion's source file existed and its output path was free when it started
GoodStart(p) ==
    /\ fs0[p][args[p].raw_filename].kind = "raw"
    /\ args[p].fits_filename # None => fs0[p][args[p].fits_filename].kind = "absent"

\* C1: a completed conversion with interpolate=False holds, with
\* split_channels, exactly four units in the order R, G1, G2, B whose FILTER
\* fields are "R", "G1", "G2", "B"; without split_channels, exactly one unit
\* holding the full raw grid, with no FILTER field and with BAYERPA set to
\* the 4-character Bayer string.  A written container is the one built.
C1_RawOutputShapes ==
    (Completed(1) /\ ~args[1].interpolate) =>
        /\ result[1].kind = "written" =>
               fs[args[1].fits_filename] = [kind |-> "fits", hdus |-> hdulist[1]]
        /\ IF args[1].split_channels
           THEN /\ Len(hdulist[1]) = 4
                /\ \A n \in 1..4 :
                       /\ HasCard(hdulist[1][n], "FILTER")
                       /\ CardValue(hdulist[1][n], "FILTER") = << <<"R", "G1", "G2", "B">>[n] >>
           ELSE /\ Len(hdulist[1]) = 1
                /\ hdulist[1][1].data = raw_data[1].data
                /\ ~HasCard(hdulist[1][1], "FILTER")
                /\ HasCard(hdulist[1][1], "BAYERPA")
                /\ Len(CardValue(hdulist[1][1], "BAYERPA")) = 4
                /\ CardValue(hdulist[1][1], "BAYERPA")
                       = SubSeq(FilterChars(rawheader[1]), 1, 4)

C1_Witness ==
    /\ Completed(1) /\ ~args[1].interpolate /\ args[1].split_channels
    /\ result[1].kind = "written"
    /\ FilterChars(rawheader[1]) = <<"G", "B", "R", "G">>
    /\ Len(hdulist[1]) = 4
    /\ hdulist[1][1].data = << <<3>> >>

\* C2: a conversion with interpolate=True of an existing source whose decode
\* and metadata steps succeed completes, with exactly one unit holding the
\* colour grid of the .ppm sibling, whatever split_channels is.
C2_InterpolatedCompletes ==
    (Done(1) /\ args[1].interpolate /\ GoodStart(1) /\ decodeOk[1]) =>
        /\ nMeta[1] = 1
        /\ meta[1].ok =>
               /\ Completed(1)
               /\ Len(hdulist[1]) = 1
               /\ hdulist[1][1].data = DcrawPpm(Sensor(args[1].raw_filename))

\* C3: a conversion called with split_channels=True and the other options at
\* their defaults, as the self-test calls it, gives a container of 4 HDUs,
\* one per channel; with split_channels=False it gives a single HDU.
C3_SplitGivesFourHDUs ==
    (Done(1) /\ args[1].interpolate = DefaultInterpolate /\ GoodStart(1) /\ decodeOk[1]) =>
        /\ nMeta[1] = 1
        /\ (meta[1].ok /\ StandardBayer(meta[1].bayer_str)) =>
               /\ Completed(1)
               /\ Len(hdulist[1]) = IF args[1].split_channels THEN 4 ELSE 1

\* C6: when the metadata text lacks one of the eight labels the conversion
\* fails, in every output mode: no field is defaulted, no container is
\* built or returned and nothing is written at the output path.
C6_MissingLabelFails ==
    (Done(1) /\ nMeta[1] = 1 /\ \E l \in Labels : ~HasLabel(rawheader[1], l)) =>
        /\ result[1].kind = "error"
        /\ meta[1] = Unset
        /\ hdulist[1] = <<>>
        /\ fs[OUT_FITS] = fs0[1][OUT_FITS]

C6_Witness ==
    /\ Done(1) /\ nMeta[1] = 1
    /\ rawheader[1] = Without(FullText, "ISO speed:")
    /\ \A l \in Labels \ {"ISO speed:"} : HasLabel(rawheader[1], l)
    /\ args[1].split_channels /\ args[1].fits_filename = OUT_FITS
    /\ result[1] = Failed("AttributeError")
    /\ fs[OUT_FITS] = Absent

\* C7: when the source file does not exist as the conversion starts, the
\* conversion fails with a not-found error before any dcraw invocation: no
\* decode, no metadata invocation, no file created, read or written, no
\* container built.
C7_MissingSourceFails ==
    (pc[1] # "idle" /\ fs0[1][args[1].raw_filename].kind = "absent") =>
        /\ pc[1] \in {"exists", "done"}
        /\ Done(1) => result[1] = Failed("IOError")
        /\ nDecode[1] = 0 /\ nMeta[1] = 0
        /\ fs = fs0[1]
        /\ raw_data[1] = Unset /\ hdulist[1] = <<>>

C7_Witness ==
    /\ Done(1) /\ args[1].raw_filename = GONE_CR2 /\ ~args[1].interpolate
    /\ result[1] = Failed("IOError")
    /\ nDecode[1] = 0 /\ nMeta[1] = 0

\* whether the conversion is past the read of its sibling file
PastRead(p) == pc[p] \in {"meta", "assemble", "output", "done"} /\ nDecode[p] = 1

\* C10: a conversion whose decode invocation wrote nothing still reads the
\* sibling file an earlier conversion of the same stem left and goes on with
\* that pixel data; it fails at the read only when there is no sibling file.
C10_StaleSiblingIsRead ==
    (PastRead(1) /\ ~decodeOk[1]) =>
        LET sib == fs0[1][Sibling(args[1].raw_filename, SiblingExt(args[1].interpolate))] IN
        IF sib.kind = "absent" THEN result[1].kind = "error"
        ELSE /\ raw_data[1].ok
             /\ \E f \in SeqFiles :
                    /\ sib = DecodeOutput(f, args[1].interpolate)
                    /\ raw_data[1].data = IF args[1].interpolate THEN DcrawPpm(Sensor(f))
                                          ELSE Sensor(f)

(***************************************************************************)
(* Properties of concurrent conversions (SpecConc: two callers).           *)
(***************************************************************************)
\* what the read step of the conversion gave: pixel data, or the error
ReadResult(p) == IF raw_data[p].ok THEN raw_data[p] ELSE Raise(result[p].err)
\* what the read step gives when the conversion runs with no other: the file
\* its own decode wrote, or else what the file system held from the start
AloneResult(p) ==
    IF args[p].interpolate THEN Raise("NameError")
    ELSE IF decodeOk[p]
    THEN [ok |-> TRUE, data |-> Sensor(args[p].raw_filename)]
    ELSE LET f == Path(args[p].raw_filename.stem, "pgm") IN
         IF InitFs[f].kind = "absent" THEN Raise("IOError")
         ELSE [ok |-> TRUE, data |-> StaleGrid]

\* C8 as stated: two concurrent conversions of distinct source paths do not
\* interfere: each reads what it would read alone.
C8_DistinctPathsIndependent ==
    \A p \in Procs : \A q \in Procs \ {p} :
        (PastRead(p) /\ pc[q] # "idle"
            /\ args[p].raw_filename # args[q].raw_filename) =>
                ReadResult(p) = AloneResult(p)

\* C8 as amended: two concurrent conversions whose source paths differ
\* before the extension do not interfere: under every interleaving of their
\* decode and read steps each reads what it would read alone.
C8_DistinctStemsIndependent ==
    \A p \in Procs : \A q \in Procs \ {p} :
        (PastRead(p) /\ pc[q] # "idle"
            /\ args[p].raw_filename.stem # args[q].raw_filename.stem) =>
                ReadResult(p) = AloneResult(p)

C8_Witness ==
    /\ overlapped
    /\ \A p \in Procs : PastRead(p) /\ ~args[p].interpolate /\ decodeOk[p] /\ raw_data[p].ok
    /\ args[1].raw_filename = IMG_NEF /\ args[2].raw_filename = DSC_NEF
    /\ raw_data[1].data = Sensor(IMG_NEF) /\ raw_data[2].data = Sensor(DSC_NEF)

====
